---- MODULE Spec2Model ----
(***************************************************************************)
(* Model of rename-ts: the transport-stream packet reader, the section     *)
(* reassembler and the processor dispatch of tspacketparser.py, and the    *)
(* bit reader, the table decoders and the extractors of rename_ts.py.      *)
(*                                                                         *)
(* Python values are represented as follows.  bytes: a sequence of         *)
(* integers 0..255.  An optional value: None is <<>>, a present value x is *)
(* <<x>>.  A call that can raise returns a record whose err field is       *)
(* "none" or the name of the exception class.                              *)
(***************************************************************************)
EXTENDS Integers, Sequences, FiniteSets, TLC

None == <<>>
Some(x) == <<x>>

\* bytes[a:b] of Python for 0 <= a, 0 <= b (both clamped to the length).
Slice(s, a, b) ==
    LET hi == IF b > Len(s) THEN Len(s) ELSE b
    IN  IF a >= hi THEN <<>> ELSE SubSeq(s, a + 1, hi)

\* bytes[a:] of Python for 0 <= a.
SliceFrom(s, a) == Slice(s, a, Len(s))

\* bytes([b]) * n
Repeat(b, n) == IF n <= 0 THEN <<>> ELSE [k \in 1..n |-> b]

RECURSIVE from_bytes(_)
\* int.from_bytes(buffer, 'big')
from_bytes(buffer) ==
    IF buffer = <<>> THEN 0
    ELSE from_bytes(SubSeq(buffer, 1, Len(buffer) - 1)) * 256 + buffer[Len(buffer)]

\* int(x) of Python for the rational num/den, den > 0: truncation toward zero.
TruncDiv(num, den) == IF num >= 0 THEN num \div den ELSE -((-num) \div den)

(***************************************************************************)
(* rename_ts.py: BytesParser                                               *)
(***************************************************************************)
BytesParser(buffer) == [buffer |-> buffer, bytepos |-> 0, bitpos |-> 0]

\* A skip that loses the carry of the bit position into the byte position.
skip_no_carry(self, n_bits) ==
    [self EXCEPT !.bytepos = self.bytepos + n_bits \div 8,
                 !.bitpos = (self.bitpos + n_bits) % 8]

skip(self, n_bits) ==
    LET bitpos == self.bitpos + n_bits
    IN  [self EXCEPT !.bytepos = self.bytepos + bitpos \div 8,
                     !.bitpos = bitpos % 8]

get_bytes(self, n_bytes) ==
    IF self.bitpos /= 0
    THEN [err |-> "RuntimeError", value |-> <<>>, parser |-> self]
    ELSE IF self.bytepos + n_bytes > Len(self.buffer)
    THEN [err |-> "OverflowError", value |-> <<>>, parser |-> self]
    ELSE [err |-> "none",
          value |-> Slice(self.buffer, self.bytepos, self.bytepos + n_bytes),
          parser |-> [self EXCEPT !.bytepos = self.bytepos + n_bytes]]

RECURSIVE get_int_accumulate(_, _, _, _)
\* for pos in range(pos, endbytepos + 1): ret = (ret << 8) | buffer[pos]
get_int_accumulate(ret, buffer, pos, endbytepos) ==
    IF pos > endbytepos THEN ret
    ELSE get_int_accumulate(ret * 256 + buffer[pos + 1], buffer, pos + 1, endbytepos)

\* Lines 78-85 of get_int, with endbytepos and endbitpos as lines 71-76
\* computed them: indexing the buffer past its end raises IndexError.
get_int_read(self, n_bits, endbytepos, endbitpos) ==
    IF self.bytepos >= Len(self.buffer)
       \/ (endbytepos > self.bytepos /\ endbytepos >= Len(self.buffer))
    THEN [err |-> "IndexError", value |-> 0, parser |-> self]
    ELSE [err |-> "none",
          value |-> get_int_accumulate(
                        self.buffer[self.bytepos + 1] % (2 ^ (8 - self.bitpos)),
                        self.buffer, self.bytepos + 1, endbytepos)
                    \div (2 ^ (8 - endbitpos)),
          parser |-> skip(self, n_bits)]

get_int(self, n_bits) ==
    IF (self.bitpos + n_bits) % 8 = 0
    THEN get_int_read(self, n_bits,
                      self.bytepos + (self.bitpos + n_bits) \div 8 - 1, 8)
    ELSE get_int_read(self, n_bits,
                      self.bytepos + (self.bitpos + n_bits) \div 8,
                      (self.bitpos + n_bits) % 8)

RECURSIVE read_fields(_, _, _)
RECURSIVE read_fields_value(_, _, _)
\* A run of consecutive statements on one BytesParser: fields is a sequence
\* of <<"int", n>> for get_int(n), <<"skip", n>> for skip(n) and <<"bytes">>
\* for get_bytes(k) with k the value read last.  The values read are
\* collected in order; the first exception ends the run.
read_fields(self, fields, values) ==
    IF fields = <<>> THEN [err |-> "none", values |-> values, parser |-> self]
    ELSE IF fields[1][1] = "skip"
    THEN read_fields(skip(self, fields[1][2]), Tail(fields), values)
    ELSE IF fields[1][1] = "bytes"
    THEN read_fields_value(get_bytes(self, values[Len(values)]), fields, values)
    ELSE read_fields_value(get_int(self, fields[1][2]), fields, values)

\* The run after the call that returned or raised r.
read_fields_value(r, fields, values) ==
    IF r.err /= "none"
    THEN [err |-> r.err, values |-> values, parser |-> r.parser]
    ELSE read_fields(r.parser, Tail(fields), Append(values, r.value))

(***************************************************************************)
(* rename_ts.py: parse_descriptors_loop                                    *)
(***************************************************************************)
\* Lines 103-112: r is the run get_int(8), get_int(8), get_bytes, get_int(8),
\* get_bytes on the parser of the descriptor payload.
service_descriptor(descriptor_tag, descriptor_length, r) ==
    IF r.err /= "none" THEN [err |-> r.err, descriptor |-> <<>>]
    ELSE [err |-> "none",
          descriptor |-> [descriptor_tag |-> descriptor_tag,
                          descriptor_length |-> descriptor_length,
                          service_type |-> r.values[1],
                          service_provider_name |-> r.values[3],
                          service_name |-> r.values[5]]]

\* The body of the "if descriptor_tag == 0x48" branch.
parse_service_descriptor(descriptor_tag, descriptor_length, payload) ==
    service_descriptor(descriptor_tag, descriptor_length,
        read_fields(BytesParser(payload),
                    << <<"int", 8>>, <<"int", 8>>, <<"bytes">>,
                       <<"int", 8>>, <<"bytes">> >>, <<>>))

RECURSIVE parse_descriptors_loop_from(_, _)
RECURSIVE parse_descriptors_loop_head(_, _)
RECURSIVE parse_descriptors_loop_append(_, _, _)

\* The while loop of parse_descriptors_loop.
parse_descriptors_loop_from(bytes_parser, descriptors) ==
    IF ~(bytes_parser.bytepos < Len(bytes_parser.buffer))
    THEN [err |-> "none", descriptors |-> descriptors]
    ELSE parse_descriptors_loop_head(
             read_fields(bytes_parser,
                         << <<"int", 8>>, <<"int", 8>>, <<"bytes">> >>, <<>>),
             descriptors)

\* Lines 101-118: head is the run that read tag, length and payload.
parse_descriptors_loop_head(head, descriptors) ==
    IF head.err /= "none" THEN [err |-> head.err, descriptors |-> descriptors]
    ELSE IF head.values[1] = 72
    THEN parse_descriptors_loop_append(
             head.parser,
             parse_service_descriptor(head.values[1], head.values[2], head.values[3]),
             descriptors)
    ELSE parse_descriptors_loop_from(head.parser,
             Append(descriptors,
                    [descriptor_tag |-> head.values[1],
                     descriptor_length |-> head.values[2],
                     payload |-> head.values[3]]))

\* Line 118 for a service descriptor sd, unless its decoding raised.
parse_descriptors_loop_append(bytes_parser, sd, descriptors) ==
    IF sd.err /= "none" THEN [err |-> sd.err, descriptors |-> descriptors]
    ELSE parse_descriptors_loop_from(bytes_parser, Append(descriptors, sd.descriptor))

parse_descriptors_loop(buffer) ==
    parse_descriptors_loop_from(BytesParser(buffer), <<>>)

(***************************************************************************)
(* rename_ts.py: parse_sdt                                                 *)
(***************************************************************************)
RECURSIVE parse_sdt_services(_, _)
RECURSIVE parse_sdt_service(_, _)

\* The while loop of parse_sdt.
parse_sdt_services(buf, services) ==
    IF ~(buf.bytepos + 4 < Len(buf.buffer))
    THEN [err |-> "none", services |-> services]
    ELSE parse_sdt_service(
             read_fields(buf, << <<"int", 16>>, <<"skip", 3>>, <<"int", 3>>,
                                 <<"int", 1>>, <<"int", 1>>, <<"int", 3>>,
                                 <<"int", 1>>, <<"int", 12>>, <<"bytes">> >>, <<>>),
             services)

\* Lines 146-150: e is the run that read one entry of the service loop.
parse_sdt_service(e, services) ==
    IF e.err /= "none" THEN [err |-> e.err, services |-> services]
    ELSE parse_sdt_services(e.parser,
             Append(services,
                    [service_id |-> e.values[1],
                     eit_user_defined_flags |-> e.values[2],
                     eit_schedule_flag |-> e.values[3],
                     eit_present_following_flag |-> e.values[4],
                     running_status |-> e.values[5],
                     free_CA_mode |-> e.values[6],
                     descriptors_loop_length |-> e.values[7],
                     descriptors_loop |-> e.values[8]]))

\* Lines 151-154: h is the run that read the table header, s the services.
parse_sdt_result(h, s) ==
    IF s.err /= "none" THEN [err |-> s.err, sdt |-> <<>>]
    ELSE [err |-> "none",
          sdt |-> [transport_stream_id |-> h.values[1],
                   version_number |-> h.values[2],
                   current_next_indicator |-> (h.values[3] /= 0),
                   section_number |-> h.values[4],
                   last_section_number |-> h.values[5],
                   original_network_id |-> h.values[6],
                   services |-> s.services]]

\* Lines 134-154: h is the run that read the table header.
parse_sdt_header(h) ==
    IF h.err /= "none" THEN [err |-> h.err, sdt |-> <<>>]
    ELSE parse_sdt_result(h, parse_sdt_services(h.parser, <<>>))

parse_sdt(buffer) ==
    parse_sdt_header(
        read_fields(BytesParser(buffer),
                    << <<"int", 16>>, <<"skip", 2>>, <<"int", 5>>, <<"int", 1>>,
                       <<"int", 8>>, <<"int", 8>>, <<"int", 16>>, <<"skip", 8>> >>,
                    <<>>))

(***************************************************************************)
(* tspacketparser.py: SectionParser                                        *)
(***************************************************************************)
Section(table_id, section_syntax_indicator, section_length, payload) ==
    [table_id |-> table_id,
     section_syntax_indicator |-> section_syntax_indicator,
     section_length |-> section_length,
     payload |-> payload]

\* SectionParser.__init__: buffer None means the section start is lost.
SectionParser == [buffer |-> None, parsed_sections |-> <<>>]

RECURSIVE SectionParser_feed_loop_eager(_, _)
\* A loop that emits a section as soon as its header is buffered, without
\* waiting for the declared length.
SectionParser_feed_loop_eager(buffer, parsed_sections) ==
    IF Len(buffer) < 3
    THEN [buffer |-> Some(buffer), parsed_sections |-> parsed_sections]
    ELSE
    LET num == from_bytes(Slice(buffer, 1, 3))
        sections == <<Section(buffer[1], num \div 32768 /= 0, num % 4096,
                              Slice(buffer, 3, 3 + (num % 4096)))>> \o parsed_sections
        rest == SliceFrom(buffer, 3 + (num % 4096))
    IN  IF rest = <<>> \/ rest[1] = 255
        THEN [buffer |-> None, parsed_sections |-> sections]
        ELSE SectionParser_feed_loop_eager(rest, sections)

RECURSIVE SectionParser_feed_loop(_, _)
\* The "while True" loop of SectionParser.feed on the byte string buffer;
\* parsed_sections.insert(0, s) puts the newest section first.
SectionParser_feed_loop(buffer, parsed_sections) ==
    IF Len(buffer) < 3
    THEN [buffer |-> Some(buffer), parsed_sections |-> parsed_sections]
    ELSE
    LET table_id == buffer[1]
        num == from_bytes(Slice(buffer, 1, 3))
        section_syntax_indicator == (num \div 32768 /= 0)
        section_length == num % 4096
    IN  IF Len(buffer) < 3 + section_length
        THEN [buffer |-> Some(buffer), parsed_sections |-> parsed_sections]
        ELSE
        LET table_body == Slice(buffer, 3, 3 + section_length)
            sections == <<Section(table_id, section_syntax_indicator,
                                  section_length, table_body)>> \o parsed_sections
            rest == SliceFrom(buffer, 3 + section_length)
        IN  IF rest = <<>> \/ rest[1] = 255
            THEN [buffer |-> None, parsed_sections |-> sections]
            ELSE SectionParser_feed_loop(rest, sections)

\* A feed that drops a pointer byte from every payload of a synchronized
\* parser, start indicator or not.
SectionParser_feed_pointer_always(self, payload_unit_start_indicator, payload) ==
    IF self.buffer = None
    THEN IF payload_unit_start_indicator
         THEN IF payload = None THEN [err |-> "TypeError", self |-> self]
              ELSE IF payload[1] = <<>> THEN [err |-> "IndexError", self |-> self]
              ELSE LET r == SectionParser_feed_loop(
                                SliceFrom(payload[1], 1 + payload[1][1]),
                                self.parsed_sections)
                   IN  [err |-> "none",
                        self |-> [buffer |-> r.buffer,
                                  parsed_sections |-> r.parsed_sections]]
         ELSE [err |-> "none", self |-> self]
    ELSE IF payload = None THEN [err |-> "TypeError", self |-> self]
    ELSE LET r == SectionParser_feed_loop(self.buffer[1] \o SliceFrom(payload[1], 1),
                                          self.parsed_sections)
         IN  [err |-> "none",
              self |-> [buffer |-> r.buffer,
                        parsed_sections |-> r.parsed_sections]]

\* A feed that takes the payload of an unsynchronized parser without a start
\* indicator as the start of a section.
SectionParser_feed_resume(self, payload_unit_start_indicator, payload) ==
    IF payload = None
    THEN IF self.buffer = None /\ ~payload_unit_start_indicator
         THEN [err |-> "none", self |-> self]
         ELSE [err |-> "TypeError", self |-> self]
    ELSE IF self.buffer = None /\ payload_unit_start_indicator /\ payload[1] = <<>>
    THEN [err |-> "IndexError", self |-> self]
    ELSE LET appended == IF self.buffer = None
                         THEN IF payload_unit_start_indicator
                              THEN SliceFrom(payload[1], 1 + payload[1][1])
                              ELSE payload[1]
                         ELSE IF payload_unit_start_indicator
                              THEN self.buffer[1] \o SliceFrom(payload[1], 1)
                              ELSE self.buffer[1] \o payload[1]
             r == SectionParser_feed_loop(appended, self.parsed_sections)
         IN  [err |-> "none",
              self |-> [buffer |-> r.buffer,
                        parsed_sections |-> r.parsed_sections]]

\* A feed that, on a start indicator, drops the pending bytes of a
\* synchronized parser and restarts at the pointer field of the payload.
SectionParser_feed_restart(self, payload_unit_start_indicator, payload) ==
    IF payload = None
    THEN IF self.buffer = None /\ ~payload_unit_start_indicator
         THEN [err |-> "none", self |-> self]
         ELSE [err |-> "TypeError", self |-> self]
    ELSE IF payload_unit_start_indicator /\ payload[1] = <<>>
    THEN [err |-> "IndexError", self |-> self]
    ELSE IF self.buffer = None /\ ~payload_unit_start_indicator
    THEN [err |-> "none", self |-> self]
    ELSE LET appended == IF payload_unit_start_indicator
                         THEN SliceFrom(payload[1], 1 + payload[1][1])
                         ELSE self.buffer[1] \o payload[1]
             r == SectionParser_feed_loop(appended, self.parsed_sections)
         IN  [err |-> "none",
              self |-> [buffer |-> r.buffer,
                        parsed_sections |-> r.parsed_sections]]

\* SectionParser.feed; payload is an optional byte string (TSPacket.payload).
SectionParser_feed(self, payload_unit_start_indicator, payload) ==
    IF self.buffer = None
    THEN IF payload_unit_start_indicator
         THEN IF payload = None THEN [err |-> "TypeError", self |-> self]
              ELSE IF payload[1] = <<>> THEN [err |-> "IndexError", self |-> self]
              ELSE LET r == SectionParser_feed_loop(
                                SliceFrom(payload[1], 1 + payload[1][1]),
                                self.parsed_sections)
                   IN  [err |-> "none",
                        self |-> [buffer |-> r.buffer,
                                  parsed_sections |-> r.parsed_sections]]
         ELSE [err |-> "none", self |-> self]
    ELSE IF payload = None THEN [err |-> "TypeError", self |-> self]
    ELSE LET appended == IF payload_unit_start_indicator
                         THEN self.buffer[1] \o SliceFrom(payload[1], 1)
                         ELSE self.buffer[1] \o payload[1]
             r == SectionParser_feed_loop(appended, self.parsed_sections)
         IN  [err |-> "none",
              self |-> [buffer |-> r.buffer,
                        parsed_sections |-> r.parsed_sections]]

\* A get_section that returns the oldest section without removing it.
get_section_keep(self) ==
    IF self.parsed_sections /= <<>>
    THEN [section |-> Some(self.parsed_sections[Len(self.parsed_sections)]),
          self |-> self]
    ELSE [section |-> None, self |-> self]

\* SectionParser.get_section: parsed_sections.pop() takes the last element.
get_section(self) ==
    IF self.parsed_sections /= <<>>
    THEN [section |-> Some(self.parsed_sections[Len(self.parsed_sections)]),
          self |-> [self EXCEPT !.parsed_sections =
                        SubSeq(self.parsed_sections, 1, Len(self.parsed_sections) - 1)]]
    ELSE [section |-> None, self |-> self]

(***************************************************************************)
(* rename_ts.py: NIDSIDExtractor                                           *)
(***************************************************************************)
NIDSIDExtractor ==
    [kind |-> "NIDSIDExtractor", pid |-> 17, section_parser |-> SectionParser,
     network_id |-> None, service_id |-> None]

\* any(x.descriptor_tag == 72 and x.service_type == 1 for x in descriptors)
has_tv_service_descriptor(descriptors) ==
    \E i \in 1..Len(descriptors) :
        descriptors[i].descriptor_tag = 72 /\ descriptors[i].service_type = 1

RECURSIVE collect_service_ids(_, _)
RECURSIVE collect_service_ids_of(_, _, _)
\* The list comprehension of feed_section over sdt.services, in order.
collect_service_ids(services, service_ids) ==
    IF services = <<>> THEN [err |-> "none", service_ids |-> service_ids]
    ELSE collect_service_ids_of(parse_descriptors_loop(services[1].descriptors_loop),
                                services, service_ids)

\* The filter of the comprehension on the decoded loop d of services[1].
collect_service_ids_of(d, services, service_ids) ==
    IF d.err /= "none" THEN [err |-> d.err, service_ids |-> service_ids]
    ELSE collect_service_ids(Tail(services),
             IF has_tv_service_descriptor(d.descriptors)
             THEN Append(service_ids, services[1].service_id)
             ELSE service_ids)

\* The first qualifying service id instead of the least one.
first_of(service_ids) == service_ids[1]

\* min(service_ids) of a non-empty list
min(service_ids) ==
    CHOOSE m \in {service_ids[i] : i \in 1..Len(service_ids)} :
        \A j \in 1..Len(service_ids) : m <= service_ids[j]

\* Lines 174-179: c is the list of qualifying service ids.
NIDSIDExtractor_record(self, sdt, c) ==
    IF c.err /= "none" THEN [err |-> c.err, self |-> self]
    ELSE IF c.service_ids = <<>> THEN [err |-> "none", self |-> self]
    ELSE [err |-> "none",
          self |-> [self EXCEPT !.network_id = Some(sdt.original_network_id),
                                !.service_id = Some(min(c.service_ids))]]

\* Lines 168-179: p is the result of parse_sdt.
NIDSIDExtractor_feed_sdt(self, p) ==
    IF p.err /= "none" THEN [err |-> p.err, self |-> self]
    ELSE NIDSIDExtractor_record(self, p.sdt,
                                collect_service_ids(p.sdt.services, <<>>))

NIDSIDExtractor_feed_section(self, section) ==
    IF section.table_id /= 66 THEN [err |-> "none", self |-> self]
    ELSE NIDSIDExtractor_feed_sdt(self, parse_sdt(section.payload))

NIDSIDExtractor_done(self) == self.network_id /= None /\ self.service_id /= None

(***************************************************************************)
(* rename_ts.py: TOTExtractor                                              *)
(***************************************************************************)
TOTExtractor ==
    [kind |-> "TOTExtractor", pid |-> 20, section_parser |-> SectionParser,
     time |-> None]

\* The days of month m of year y, as datetime.datetime validates them.
days_in_month(y, m) ==
    IF m \in {4, 6, 9, 11} THEN 30
    ELSE IF m /= 2 THEN 31
    ELSE IF y % 4 = 0 /\ (y % 100 /= 0 \/ y % 400 = 0) THEN 29 ELSE 28

\* The conversion without the correction of the year and the month for
\* m' = 14 and m' = 15.
mjd_to_date_uncorrected(mjd) ==
    LET y_prime == TruncDiv(20 * mjd - 301564, 7305)
        a == TruncDiv(1461 * y_prime, 4)
        m_prime == TruncDiv(10000 * (mjd - a) - 149561000, 306001)
        d == mjd - 14956 - a - TruncDiv(306001 * m_prime, 10000)
    IN  [y |-> y_prime + 1900, m |-> m_prime - 1, d |-> d]

\* The date of a modified Julian date, lines 194-199.  The float expressions
\* are computed exactly: (mjd - 15078.2) / 365.25 = (20 mjd - 301564) / 7305,
\* y' * 365.25 = 1461 y' / 4, (mjd - 14956.1 - a) / 30.6001 =
\* (10000 (mjd - a) - 149561000) / 306001, m' * 30.6001 = 306001 m' / 10000.
mjd_to_date(mjd) ==
    LET y_prime == TruncDiv(20 * mjd - 301564, 7305)
        a == TruncDiv(1461 * y_prime, 4)
        m_prime == TruncDiv(10000 * (mjd - a) - 149561000, 306001)
        d == mjd - 14956 - a - TruncDiv(306001 * m_prime, 10000)
        k == IF m_prime \in {14, 15} THEN 1 ELSE 0
    IN  [y |-> y_prime + k + 1900, m |-> m_prime - 1 - k * 12, d |-> d]

\* (b & 0x0f) + (b >> 4) * 10
bcd(b) == (b % 16) + (b \div 16) * 10

\* Lines 200-205 on the five bytes jst_time and the date of their MJD.
TOTExtractor_set_time(self, jst_time, date) ==
    IF ~(/\ date.y >= 1 /\ date.y <= 9999
         /\ date.m >= 1 /\ date.m <= 12
         /\ date.d >= 1 /\ date.d <= days_in_month(date.y, date.m)
         /\ bcd(jst_time[3]) <= 23
         /\ bcd(jst_time[4]) <= 59
         /\ bcd(jst_time[5]) <= 59)
    THEN [err |-> "ValueError", self |-> self]
    ELSE [err |-> "none",
          self |-> [self EXCEPT !.time =
                        Some([year |-> date.y, month |-> date.m, day |-> date.d,
                              hour |-> bcd(jst_time[3]),
                              minute |-> bcd(jst_time[4]),
                              second |-> bcd(jst_time[5])])]]

\* jst_time[2] raises IndexError unless the payload has five bytes.
TOTExtractor_feed_section(self, section) ==
    IF Len(Slice(section.payload, 0, 5)) < 5
    THEN [err |-> "IndexError", self |-> self]
    ELSE TOTExtractor_set_time(self, Slice(section.payload, 0, 5),
             mjd_to_date(from_bytes(Slice(section.payload, 0, 2))))

TOTExtractor_done(self) == self.time /= None

(***************************************************************************)
(* tspacketparser.py: parse_adaptation_field                               *)
(*                                                                         *)
(* A clock reference exceeds the integers of the checker: it is kept as    *)
(* the record [hi, lo] that stands for hi * 65536 + lo, 0 <= lo < 65536.   *)
(***************************************************************************)
\* parse_pcr: num = int.from_bytes(buffer, 'big') of at most six bytes, as
\* its 16-bit digits n2, n1, n0; (num >> 15) * 300 + ((num >> 6) & 0x01ff).
\* num >> 15 is n2 * 2^17 + n1 * 2 + (n0 >> 15), and (num >> 6) & 0x1ff is
\* (n0 >> 6) & 0x1ff.
parse_pcr(buffer) ==
    LET padded == Repeat(0, 6 - Len(buffer)) \o buffer
        n2 == padded[1] * 256 + padded[2]
        n1 == padded[3] * 256 + padded[4]
        n0 == padded[5] * 256 + padded[6]
        low == (n1 * 2 + n0 \div 32768) * 300 + ((n0 \div 64) % 512)
    IN  [hi |-> n2 * 600 + low \div 65536, lo |-> low % 65536]

\* int.from_bytes(b, 'big', signed=True) of at most one byte.
from_bytes_signed(b) ==
    IF b = <<>> THEN 0 ELSE IF b[1] >= 128 THEN b[1] - 256 ELSE b[1]

\* Lines 106-137, on a buffer whose length byte is right and not zero.
parse_adaptation_field_flags(buffer) ==
    LET pcr_flag == ((buffer[2] \div 16) % 2 /= 0)
        opcr_flag == ((buffer[2] \div 8) % 2 /= 0)
        splicing_point_flag == ((buffer[2] \div 4) % 2 /= 0)
        opcr_pointer == IF pcr_flag THEN 8 ELSE 2
        splicing_pointer == opcr_pointer + (IF opcr_flag THEN 6 ELSE 0)
    IN  [discontinuity_indicator |-> (buffer[2] \div 128 /= 0),
         random_access_indicator |-> ((buffer[2] \div 64) % 2 /= 0),
         elementary_stream_priority_indicator |-> ((buffer[2] \div 32) % 2 /= 0),
         pcr_flag |-> pcr_flag,
         opcr_flag |-> opcr_flag,
         splicing_point_flag |-> splicing_point_flag,
         transport_private_data_flag |-> ((buffer[2] \div 2) % 2 /= 0),
         adaptation_field_extension_flag |-> (buffer[2] % 2 /= 0),
         pcr |-> IF pcr_flag THEN Some(parse_pcr(Slice(buffer, 2, 8))) ELSE None,
         opcr |-> IF opcr_flag
                  THEN Some(parse_pcr(Slice(buffer, opcr_pointer, opcr_pointer + 6)))
                  ELSE None,
         splicing_countdown |->
             IF splicing_point_flag
             THEN Some(from_bytes_signed(Slice(buffer, splicing_pointer,
                                               splicing_pointer + 1)))
             ELSE None,
         transport_private_data |-> None,
         adaptation_field_extension |-> None]

\* parse_adaptation_field: field is the optional AdaptationField returned.
parse_adaptation_field(buffer) ==
    IF buffer = <<>> THEN [err |-> "IndexError", field |-> None]
    ELSE IF 1 + buffer[1] /= Len(buffer)
    THEN [err |-> "PacketParseError", field |-> None]
    ELSE IF buffer[1] = 0 THEN [err |-> "none", field |-> None]
    ELSE [err |-> "none", field |-> Some(parse_adaptation_field_flags(buffer))]

(***************************************************************************)
(* tspacketparser.py: parse_packet                                         *)
(***************************************************************************)
SYNC_BYTE == 71
TS_PACKET_SIZE == 188

\* The checks with one bound for the adaptation field length, payload or not.
packet_invalid_one_bound(h) ==
    \/ h.sync_byte /= SYNC_BYTE
    \/ h.transport_error_indicator
    \/ (h.pid >= 2 /\ h.pid <= 15)
    \/ h.transport_scrambling_control = 1
    \/ h.adaptation_field_control = 0
    \/ (h.adaptation_field_control \in {2, 3} /\ h.adaptation_field_length > 183)

\* The checks of parse_packet that raise PacketParseError, on the record h
\* of the header fields.
packet_invalid(h) ==
    \/ h.sync_byte /= SYNC_BYTE
    \/ h.transport_error_indicator
    \/ (h.pid >= 2 /\ h.pid <= 15)
    \/ h.transport_scrambling_control = 1
    \/ h.adaptation_field_control = 0
    \/ (h.adaptation_field_control = 2 /\ h.adaptation_field_length > 183)
    \/ (h.adaptation_field_control = 3 /\ h.adaptation_field_length > 182)

\* parse_packet.  header = int.from_bytes(buffer[:4], 'big') is kept as its
\* top byte (header >> 24) and its low 24 bits, which hold every other field.
parse_packet(buffer) ==
    LET sync_byte == buffer[1]
        low == from_bytes(Slice(buffer, 1, 4))
        transport_error_indicator == ((low \div 8388608) % 2 /= 0)
        payload_unit_start_indicator == ((low \div 4194304) % 2 /= 0)
        transport_priority == ((low \div 2097152) % 2 /= 0)
        pid == (low \div 256) % 8192
        transport_scrambling_control == (low \div 64) % 4
        adaptation_field_control == (low \div 16) % 4
        continuity_counter == low % 16
        has_adaptation == ((adaptation_field_control \div 2) % 2 /= 0)
        adaptation_field_length == IF has_adaptation THEN buffer[5] ELSE 0
    IN  IF packet_invalid([sync_byte |-> sync_byte,
                           transport_error_indicator |-> transport_error_indicator,
                           pid |-> pid,
                           transport_scrambling_control |-> transport_scrambling_control,
                           adaptation_field_control |-> adaptation_field_control,
                           adaptation_field_length |-> adaptation_field_length])
        THEN [err |-> "PacketParseError", packet |-> <<>>]
        ELSE
        LET adaptation_field == IF has_adaptation
                                THEN Some(Slice(buffer, 4, 5 + adaptation_field_length))
                                ELSE None
            payload == IF adaptation_field_control % 2 = 0 THEN None
                       ELSE IF has_adaptation
                       THEN Some(SliceFrom(buffer, 5 + adaptation_field_length))
                       ELSE Some(SliceFrom(buffer, 4))
        IN  [err |-> "none",
             packet |-> [transport_error_indicator |-> transport_error_indicator,
                         payload_unit_start_indicator |-> payload_unit_start_indicator,
                         transport_priority |-> transport_priority,
                         pid |-> pid,
                         transport_scrambling_control |-> transport_scrambling_control,
                         adaptation_field_control |-> adaptation_field_control,
                         continuity_counter |-> continuity_counter,
                         adaptation_field |-> adaptation_field,
                         payload |-> payload]]

(***************************************************************************)
(* tspacketparser.py: read_ts_packet                                       *)
(***************************************************************************)
\* bytes.find(b): the index of the first b, or -1.
find(s, b) ==
    IF \E i \in 1..Len(s) : s[i] = b
    THEN (CHOOSE i \in 1..Len(s) : s[i] = b /\ \A j \in 1..(i - 1) : s[j] /= b) - 1
    ELSE -1

\* f.read(n) on the file [data, pos]
file_read(file, n) ==
    [bytes |-> Slice(file.data, file.pos, file.pos + n),
     file |-> [file EXCEPT !.pos = IF file.pos + n > Len(file.data)
                                   THEN Len(file.data) ELSE file.pos + n]]

\* An iteration that keeps the whole window when parse_packet rejects it.
read_ts_packet_iter_keep(file, packet0) ==
    LET rd == file_read(file, TS_PACKET_SIZE - Len(packet0))
        packet == packet0 \o rd.bytes
    IN  IF Len(packet) /= TS_PACKET_SIZE
        THEN [kind |-> "return", file |-> rd.file, packet |-> packet, value |-> <<>>]
        ELSE
        LET idx == find(packet, SYNC_BYTE)
        IN  IF idx = 0
            THEN LET r == parse_packet(packet)
                 IN  IF r.err = "none"
                     THEN [kind |-> "yield", file |-> rd.file,
                           packet |-> packet, value |-> r.packet]
                     ELSE [kind |-> "drop", file |-> rd.file,
                           packet |-> packet, value |-> <<>>]
            ELSE [kind |-> "drop", file |-> rd.file,
                  packet |-> SliceFrom(packet, IF idx = -1 THEN TS_PACKET_SIZE ELSE idx),
                  value |-> <<>>]

\* One iteration of the "while True" loop of read_ts_packet, entered with the
\* local variable packet: it yields a packet, drops bytes from the front of
\* the window, or returns on a short read.
read_ts_packet_iter(file, packet0) ==
    LET rd == file_read(file, TS_PACKET_SIZE - Len(packet0))
        packet == packet0 \o rd.bytes
    IN  IF Len(packet) /= TS_PACKET_SIZE
        THEN [kind |-> "return", file |-> rd.file, packet |-> packet, value |-> <<>>]
        ELSE
        LET idx == find(packet, SYNC_BYTE)
        IN  IF idx = 0
            THEN LET r == parse_packet(packet)
                 IN  IF r.err = "none"
                     THEN [kind |-> "yield", file |-> rd.file,
                           packet |-> packet, value |-> r.packet]
                     ELSE [kind |-> "drop", file |-> rd.file,
                           packet |-> SliceFrom(packet, 1), value |-> <<>>]
            ELSE [kind |-> "drop", file |-> rd.file,
                  packet |-> SliceFrom(packet, IF idx = -1 THEN TS_PACKET_SIZE ELSE idx),
                  value |-> <<>>]

(***************************************************************************)
(* tspacketparser.py: SectionPacketProcessor, and the processors' dispatch *)
(***************************************************************************)
\* The done property of a processor.
done(self) ==
    IF self.kind = "NIDSIDExtractor" THEN NIDSIDExtractor_done(self)
    ELSE TOTExtractor_done(self)

\* self.feed_section(section), by the class of self.
feed_section(self, section) ==
    IF self.kind = "NIDSIDExtractor" THEN NIDSIDExtractor_feed_section(self, section)
    ELSE TOTExtractor_feed_section(self, section)

\* Lines 230-232: got is the result of get_section.
SectionPacketProcessor_got(self, got) ==
    IF got.section = None
    THEN [err |-> "none", self |-> [self EXCEPT !.section_parser = got.self]]
    ELSE feed_section([self EXCEPT !.section_parser = got.self], got.section[1])

\* Lines 229-232: fed is the result of section_parser.feed.
SectionPacketProcessor_fed(self, fed) ==
    IF fed.err /= "none" THEN [err |-> fed.err, self |-> self]
    ELSE SectionPacketProcessor_got(self, get_section(fed.self))

\* A feed that does not look at the PID of the packet.
SectionPacketProcessor_feed_any_pid(self, packet) ==
    SectionPacketProcessor_fed(self,
        SectionParser_feed(self.section_parser,
                           packet.payload_unit_start_indicator, packet.payload))

SectionPacketProcessor_feed(self, packet) ==
    IF packet.pid /= self.pid THEN [err |-> "none", self |-> self]
    ELSE SectionPacketProcessor_fed(self,
             SectionParser_feed(self.section_parser,
                                packet.payload_unit_start_indicator, packet.payload))

\* A dispatch that does not filter on done: every processor is fed.
undone_processors_unfiltered(packet_processors, objects) == packet_processors

\* undone_processors = [x for x in packet_processors if not x.done]
undone_processors(packet_processors, objects) ==
    SelectSeq(packet_processors, LAMBDA x : ~done(objects[x]))

(***************************************************************************)
(* Input streams: transport-stream frames as a broadcaster builds them.    *)
(***************************************************************************)
MaxFrames == 3

TSHeader(pusi, pid, afc, cc) ==
    <<SYNC_BYTE, (IF pusi THEN 64 ELSE 0) + pid \div 256, pid % 256, afc * 16 + cc>>

\* A frame with payload only; body is padded with stuffing bytes to 184 bytes.
PayloadFrame(pusi, pid, body) ==
    TSHeader(pusi, pid, 1, 0) \o body \o Repeat(255, 184 - Len(body))

\* A frame with an adaptation field of 183 bytes and no payload.
AdaptationOnlyFrame(pusi, pid) ==
    TSHeader(pusi, pid, 2, 0) \o <<183, 0>> \o Repeat(255, 182)

\* A frame whose adaptation field is stuffed so that the payload is body.
ShortPayloadFrame(pusi, pid, body) ==
    TSHeader(pusi, pid, 3, 0) \o <<183 - Len(body), 0>>
        \o Repeat(255, 182 - Len(body)) \o body

\* A frame with the transport error indicator set.
ErrorFrame(pid) ==
    <<SYNC_BYTE, 128 + pid \div 256, pid % 256, 16>> \o Repeat(255, 184)

\* table id, syntax indicator and reserved bits, 12-bit length, body.
SectionBytes(table_id, body) ==
    <<table_id, 240 + Len(body) \div 256, Len(body) % 256>> \o body

\* A service descriptor (tag 0x48) with empty provider and service names.
ServiceDescriptorBytes(service_type) == <<72, 3, service_type, 0, 0>>

\* Any other descriptor: tag, length, payload.
RawDescriptorBytes(tag, payload) == <<tag, Len(payload)>> \o payload

\* One entry of the service loop of a service description table.
ServiceBytes(service_id, descriptors_loop) ==
    <<service_id \div 256, service_id % 256, 255,
      128 + Len(descriptors_loop) \div 256, Len(descriptors_loop) % 256>>
        \o descriptors_loop

\* The body of a service description table: header, entries, CRC_32.
SDTBytes(transport_stream_id, original_network_id, services) ==
    <<transport_stream_id \div 256, transport_stream_id % 256, 193, 0, 0,
      original_network_id \div 256, original_network_id % 256, 255>>
        \o services \o <<222, 173, 190, 239>>

\* The body of a time offset table: MJD, BCD hour, minute, second.
TOTBytes(mjd, hour, minute, second) ==
    <<mjd \div 256, mjd % 256, hour, minute, second, 240, 0, 1, 2, 3, 4>>

SdtTv == SectionBytes(66, SDTBytes(16625, 4,
             ServiceBytes(102, ServiceDescriptorBytes(1))
             \o ServiceBytes(101, RawDescriptorBytes(193, <<1>>) \o ServiceDescriptorBytes(1))
             \o ServiceBytes(100, ServiceDescriptorBytes(192))))
SdtNoTv == SectionBytes(66, SDTBytes(16625, 4,
               ServiceBytes(103, ServiceDescriptorBytes(192))))
SdtOther == SectionBytes(70, SDTBytes(16626, 7,
                ServiceBytes(99, ServiceDescriptorBytes(1))))
\* A table cut after its third byte.
SdtShort == SectionBytes(66, <<64, 241, 193>>)
\* A table whose entry declares a descriptor loop longer than the table.
SdtLongLoop == SectionBytes(66,
    <<64, 241, 193, 0, 0, 0, 4, 255, 0, 102, 255, 128, 200, 72, 3, 1, 0, 0, 1, 2, 3, 4>>)
Tot == SectionBytes(115, TOTBytes(60000, 18, 52, 86))

FrameMenu ==
    << PayloadFrame(TRUE, 17, <<0>> \o SdtTv),
       PayloadFrame(TRUE, 17, <<0>> \o SdtNoTv),
       PayloadFrame(TRUE, 17, <<0>> \o SdtShort),
       PayloadFrame(TRUE, 17, <<0>> \o SdtLongLoop),
       PayloadFrame(TRUE, 17, <<0>> \o SdtNoTv \o SdtTv),
       ShortPayloadFrame(TRUE, 17, <<0>> \o SubSeq(SdtTv, 1, 20)),
       ShortPayloadFrame(FALSE, 17, SubSeq(SdtTv, 21, Len(SdtTv))),
       PayloadFrame(TRUE, 17, <<0>> \o SdtOther),
       PayloadFrame(TRUE, 20, <<0>> \o Tot),
       PayloadFrame(FALSE, 8191, <<>>),
       AdaptationOnlyFrame(TRUE, 17),
       ErrorFrame(17) >>

RECURSIVE Flatten(_)
Flatten(seqs) == IF seqs = <<>> THEN <<>> ELSE seqs[1] \o Flatten(Tail(seqs))

\* The streams of one to MaxFrames frames of the menu.
Streams ==
    { Flatten([k \in 1..Len(ix) |-> FrameMenu[ix[k]]]) :
        ix \in UNION { [1..n -> 1..Len(FrameMenu)] : n \in 1..MaxFrames } }

(***************************************************************************)
(* State.                                                                  *)
(*   file              the byte source f: its data and read position       *)
(*   packet            the window of read_ts_packet (its local packet)     *)
(*   pc                the position of the running function                *)
(*   cur               the packet of the current iteration of parse        *)
(*   undone            the list undone_processors of the iteration         *)
(*   i                 the index in undone of the next processor to feed   *)
(*   packet_processors the processors given to parse, in order             *)
(*   objects           the state of each processor object                  *)
(*   exc               the exception that left the running function        *)
(*   nfeeds            how often parse has called feed on each processor   *)
(*   yielded           the packets read_ts_packet has yielded, in order    *)
(*   section_parser    a SectionParser driven directly                     *)
(*   bytes_parser      a BytesParser driven directly                       *)
(*   arg, ret          the argument and result of a function called alone  *)
(***************************************************************************)
VARIABLES file, packet, pc, cur, undone, i, packet_processors, objects, exc,
          nfeeds, yielded, section_parser, bytes_parser, arg, ret

vars == <<file, packet, pc, cur, undone, i, packet_processors, objects, exc,
          nfeeds, yielded, section_parser, bytes_parser, arg, ret>>

readerVars == <<file, packet, yielded>>
parseVars == <<cur, undone, i, packet_processors, objects, exc, nfeeds>>
aloneVars == <<section_parser, bytes_parser, arg, ret>>

NoFile == [data |-> <<>>, pos |-> 0]

ReaderIdle == file = NoFile /\ packet = <<>> /\ yielded = <<>>
ParseIdle ==
    /\ cur = None /\ undone = <<>> /\ i = 0 /\ packet_processors = <<>>
    /\ objects = <<>> /\ exc = "none" /\ nfeeds = <<>>
AloneIdle ==
    /\ section_parser = SectionParser /\ bytes_parser = BytesParser(<<>>)
    /\ arg = <<>> /\ ret = <<>>

ProcessorLists == { <<"nidsid_extractor">>, <<"nidsid_extractor", "tot_extractor">> }

\* The fresh processor objects of a list, by name.
NewProcessors(list) ==
    IF list = <<"nidsid_extractor">>
    THEN [nidsid_extractor |-> NIDSIDExtractor]
    ELSE [nidsid_extractor |-> NIDSIDExtractor, tot_extractor |-> TOTExtractor]

NoFeeds(list) ==
    IF list = <<"nidsid_extractor">>
    THEN [nidsid_extractor |-> 0]
    ELSE [nidsid_extractor |-> 0, tot_extractor |-> 0]

Names(list) == { list[k] : k \in 1..Len(list) }

(***************************************************************************)
(* parse(f, packet_processors)                                             *)
(***************************************************************************)
Init ==
    /\ \E data \in Streams : file = [data |-> data, pos |-> 0]
    /\ packet = <<>> /\ yielded = <<>>
    /\ pc = "next"
    /\ cur = None /\ undone = <<>> /\ i = 0
    /\ packet_processors \in ProcessorLists
    /\ objects = NewProcessors(packet_processors)
    /\ nfeeds = NoFeeds(packet_processors)
    /\ exc = "none"
    /\ AloneIdle

\* for packet in read_ts_packet(f): the generator yields the next packet.
ScanYield ==
    /\ pc = "next"
    /\ LET r == read_ts_packet_iter(file, packet)
       IN  /\ r.kind = "yield"
           /\ file' = r.file /\ packet' = r.packet
           /\ yielded' = Append(yielded, r.value)
           /\ cur' = Some(r.value)
    /\ pc' = "body"
    /\ UNCHANGED <<undone, i, packet_processors, objects, exc, nfeeds>>
    /\ UNCHANGED aloneVars

\* The generator drops bytes from the front of its window and reads on.
ScanDrop ==
    /\ pc = "next"
    /\ LET r == read_ts_packet_iter(file, packet)
       IN  /\ r.kind = "drop"
           /\ file' = r.file /\ packet' = r.packet
    /\ UNCHANGED <<pc, yielded>>
    /\ UNCHANGED parseVars
    /\ UNCHANGED aloneVars

\* The generator returns on a short read: the for loop of parse ends.
ScanReturn ==
    /\ pc = "next"
    /\ LET r == read_ts_packet_iter(file, packet)
       IN  /\ r.kind = "return"
           /\ file' = r.file /\ packet' = r.packet
    /\ pc' = "exhausted"
    /\ UNCHANGED yielded
    /\ UNCHANGED parseVars
    /\ UNCHANGED aloneVars

\* The consumer asks for the next packet: the generator resumes after its
\* yield in the else branch of the try statement, packet = b''.
ScanResume ==
    /\ pc = "resume"
    /\ packet' = <<>>
    /\ pc' = "next"
    /\ UNCHANGED <<file, yielded>>
    /\ UNCHANGED parseVars /\ UNCHANGED aloneVars

\* undone_processors is empty: break.
BodyBreak ==
    /\ pc = "body"
    /\ undone_processors(packet_processors, objects) = <<>>
    /\ pc' = "break"
    /\ undone' = <<>>
    /\ UNCHANGED <<cur, i, packet_processors, objects, exc, nfeeds>>
    /\ UNCHANGED readerVars /\ UNCHANGED aloneVars

\* undone_processors is not empty: the inner for loop starts.
BodyFeed ==
    /\ pc = "body"
    /\ undone_processors(packet_processors, objects) /= <<>>
    /\ undone' = undone_processors(packet_processors, objects)
    /\ i' = 1
    /\ pc' = "feed"
    /\ UNCHANGED <<cur, packet_processors, objects, exc, nfeeds>>
    /\ UNCHANGED readerVars /\ UNCHANGED aloneVars

\* packet_processor.feed(packet) returns.
FeedReturn ==
    /\ pc = "feed"
    /\ LET r == SectionPacketProcessor_feed(objects[undone[i]], cur[1])
       IN  /\ r.err = "none"
           /\ objects' = [objects EXCEPT ![undone[i]] = r.self]
    /\ nfeeds' = [nfeeds EXCEPT ![undone[i]] = @ + 1]
    /\ IF i = Len(undone) THEN pc' = "resume" /\ i' = 0 ELSE pc' = "feed" /\ i' = i + 1
    /\ UNCHANGED <<cur, undone, packet_processors, exc>>
    /\ UNCHANGED readerVars /\ UNCHANGED aloneVars

\* packet_processor.feed(packet) raises: nothing in parse catches it.
FeedRaise ==
    /\ pc = "feed"
    /\ LET r == SectionPacketProcessor_feed(objects[undone[i]], cur[1])
       IN  /\ r.err /= "none"
           /\ objects' = [objects EXCEPT ![undone[i]] = r.self]
           /\ exc' = r.err
    /\ nfeeds' = [nfeeds EXCEPT ![undone[i]] = @ + 1]
    /\ pc' = "raised"
    /\ UNCHANGED <<cur, undone, i, packet_processors>>
    /\ UNCHANGED readerVars /\ UNCHANGED aloneVars

Next ==
    \/ ScanYield \/ ScanDrop \/ ScanReturn \/ ScanResume
    \/ BodyBreak \/ BodyFeed
    \/ FeedReturn \/ FeedRaise

Spec == Init /\ [][Next]_vars

\* parse runs to its end: every step of it is always taken once enabled.
FairSpec == Spec /\ WF_vars(Next)

(***************************************************************************)
(* Claims about parse.                                                     *)
(***************************************************************************)
Stopped == pc \in {"break", "exhausted", "raised"}
AllDone == \A x \in Names(packet_processors) : done(objects[x])

\* The recorded result of a processor.
Result(self) ==
    IF self.kind = "NIDSIDExtractor" THEN <<self.network_id, self.service_id>>
    ELSE <<self.time>>

\* C1: once a processor is done, no step of parse calls its feed again and
\* its recorded result never changes.
C1_DoneNeverFedAgain ==
    [][\A x \in Names(packet_processors) :
          done(objects[x]) =>
              /\ nfeeds'[x] = nfeeds[x]
              /\ Result(objects'[x]) = Result(objects[x])]_vars

\* A processor is done and parse has fed another processor since.
C1_Witness ==
    /\ Len(packet_processors) = 2
    /\ done(objects["nidsid_extractor"])
    /\ ~done(objects["tot_extractor"])
    /\ nfeeds["tot_extractor"] > nfeeds["nidsid_extractor"]

\* C2: parse stops only because every processor is done or because the
\* source is exhausted.
C2_StopsDoneOrExhausted ==
    Stopped => \/ (pc = "break" /\ AllDone)
               \/ (pc = "exhausted" /\ file.pos = Len(file.data))

BitReaderErrors == {"IndexError", "OverflowError", "RuntimeError"}

\* C3: a failed decode of a section as a service-list table aborts only
\* that decode attempt: the error never leaves parse, the run goes on.
C3_DecodeFailureContained ==
    ~(/\ pc = "raised"
      /\ undone[i] = "nidsid_extractor"
      /\ exc \in BitReaderErrors)

RECURSIVE FeedOwnPackets(_, _)
\* The processor self after the packets of its own PID among packets, in
\* order, each fed unless the processor is done by then.
FeedOwnPackets(self, packets) ==
    IF packets = <<>> \/ done(self) THEN self
    ELSE IF packets[1].pid /= self.pid THEN FeedOwnPackets(self, Tail(packets))
    ELSE FeedOwnPackets(SectionPacketProcessor_feed(self, packets[1]).self,
                        Tail(packets))

\* C15: a packet of another PID changes nothing in a processor (its section
\* parser, its queue, its result): whenever parse is between two packets or
\* has ended without an exception, every processor is in the state that the
\* packets of its own PID alone put it in.
C15_OwnPidOnly ==
    pc \in {"next", "resume", "break", "exhausted"} =>
        \A x \in Names(packet_processors) :
            objects[x] = FeedOwnPackets(NewProcessors(packet_processors)[x], yielded)

\* Both processors were fed a packet of the time table's PID, which left the
\* first untouched, then a packet of the service table's PID.
C15_Witness ==
    /\ pc = "resume" /\ Len(packet_processors) = 2 /\ Len(yielded) = 2
    /\ yielded[1].pid = 20 /\ yielded[2].pid = 17
    /\ nfeeds["nidsid_extractor"] = 2
    /\ done(objects["nidsid_extractor"]) /\ done(objects["tot_extractor"])

(***************************************************************************)
(* read_ts_packet alone: the caller takes every packet it yields.  The     *)
(* source is one corrupted byte followed by valid frames.                  *)
(***************************************************************************)
CorruptBytes == {0, 70, 71, 72, 255}

\* The frames of the menu that parse_packet accepts.
ValidFrames == { fr \in {FrameMenu[k] : k \in 1..Len(FrameMenu)} :
                   parse_packet(fr).err = "none" }

InitRead ==
    /\ \E b \in CorruptBytes :
         \E frames \in UNION { [1..n -> ValidFrames] : n \in 1..MaxFrames } :
            /\ arg = [byte |-> b, frames |-> frames]
            /\ file = [data |-> <<b>> \o Flatten(frames), pos |-> 0]
    /\ packet = <<>> /\ yielded = <<>>
    /\ pc = "next"
    /\ ParseIdle
    /\ section_parser = SectionParser /\ bytes_parser = BytesParser(<<>>)
    /\ ret = <<>>

\* The generator yields a packet and the caller asks for the next one.
ReadYield ==
    /\ pc = "next"
    /\ LET r == read_ts_packet_iter(file, packet)
       IN  /\ r.kind = "yield"
           /\ file' = r.file /\ packet' = r.packet
           /\ yielded' = Append(yielded, r.value)
    /\ pc' = "resume"
    /\ UNCHANGED parseVars /\ UNCHANGED aloneVars

NextRead == ReadYield \/ ScanDrop \/ ScanReturn \/ ScanResume

SpecRead == InitRead /\ [][NextRead]_vars

\* C4: from one corrupted byte followed by valid frames, read_ts_packet
\* yields exactly the packets of those frames, in order and unchanged.
C4_YieldsEveryValidFrame ==
    pc = "exhausted" =>
        yielded = [k \in 1..Len(arg.frames) |-> parse_packet(arg.frames[k]).packet]

(***************************************************************************)
(* parse_packet alone, on frames of every header combination.              *)
(***************************************************************************)
HeaderFrames ==
    { <<sync, (IF tei THEN 128 ELSE 0) + (IF pusi THEN 64 ELSE 0) + pid \div 256,
        pid % 256, tsc * 64 + afc * 16 + 5, aflen>> \o Repeat(255, 183) :
        sync \in {70, 71}, tei \in BOOLEAN, pusi \in BOOLEAN,
        pid \in {0, 1, 2, 15, 16, 17, 8191}, tsc \in 0..3, afc \in 0..3,
        aflen \in {0, 1, 182, 183, 184, 255} }

InitPacket ==
    /\ arg \in HeaderFrames
    /\ ret = <<>>
    /\ pc = "call"
    /\ ReaderIdle /\ ParseIdle
    /\ section_parser = SectionParser /\ bytes_parser = BytesParser(<<>>)

CallParsePacket ==
    /\ pc = "call"
    /\ ret' = parse_packet(arg)
    /\ pc' = "returned"
    /\ UNCHANGED <<arg, section_parser, bytes_parser>>
    /\ UNCHANGED readerVars /\ UNCHANGED parseVars

NextPacket == CallParsePacket

SpecPacket == InitPacket /\ [][NextPacket]_vars

\* The header fields of a frame, byte by byte.
FrameAfc(frame) == (frame[4] \div 16) % 4
FrameRejected(frame) ==
    \/ frame[1] /= 71
    \/ frame[2] >= 128
    \/ (frame[2] % 32 = 0 /\ frame[3] \in 2..15)
    \/ frame[4] \div 64 = 1
    \/ FrameAfc(frame) = 0
    \/ (FrameAfc(frame) = 2 /\ frame[5] > 183)
    \/ (FrameAfc(frame) = 3 /\ frame[5] > 182)

\* C5: parse_packet fails, with the frame error, exactly on the listed header
\* conditions; otherwise the payload is absent exactly without the payload
\* bit and the adaptation field exactly without the adaptation bit.
C5_RejectsExactly ==
    pc = "returned" =>
        /\ ret.err = (IF FrameRejected(arg) THEN "PacketParseError" ELSE "none")
        /\ ret.err = "none" =>
              /\ (ret.packet.payload = None) <=> (FrameAfc(arg) \in {0, 2})
              /\ (ret.packet.adaptation_field = None) <=> (FrameAfc(arg) \in {0, 1})

\* A frame with adaptation field and payload whose adaptation field has the
\* greatest accepted length has been parsed.
C5_Witness ==
    /\ pc = "returned" /\ ret.err = "none"
    /\ FrameAfc(arg) = 3 /\ arg[5] = 182
    /\ ret.packet.payload = Some(<<255>>)

(***************************************************************************)
(* SectionParser alone: one payload holding one complete section is fed    *)
(* whole, or split in two payloads, and get_section is called twice.       *)
(***************************************************************************)
MaxSectionLen == 3
MaxPad == 2

SectionBodies ==
    UNION { [1..n -> {0, 255}] : n \in 0..MaxSectionLen } \cup { Repeat(7, 260) }

\* pointer field 0, table id, the two header bytes (high is their top four
\* bits), the body, and pad stuffing bytes.
SectionPayload(a) ==
    <<0, a.table_id, a.high * 16 + Len(a.body) \div 256, Len(a.body) % 256>>
        \o a.body \o Repeat(255, a.pad)

InitSection ==
    /\ \E table_id \in {0, 66, 255}, high \in {0, 7, 8, 15},
          body \in SectionBodies, pad \in 0..MaxPad :
          \E split \in 0..(4 + Len(body) + pad) :
             arg = [table_id |-> table_id, high |-> high, body |-> body,
                    pad |-> pad, split |-> split]
    /\ section_parser = SectionParser
    /\ ret = <<>>
    /\ pc = "feed"
    /\ bytes_parser = BytesParser(<<>>)
    /\ ReaderIdle /\ ParseIdle

\* feed(True, payload) with the whole payload.
FeedWhole ==
    /\ pc = "feed" /\ arg.split = 0
    /\ section_parser' = SectionParser_feed(section_parser, TRUE,
                                            Some(SectionPayload(arg))).self
    /\ pc' = "get"
    /\ UNCHANGED <<arg, ret, bytes_parser>>
    /\ UNCHANGED readerVars /\ UNCHANGED parseVars

\* feed(True, first part): the payload up to the split point.
FeedFirst ==
    /\ pc = "feed" /\ arg.split > 0
    /\ section_parser' = SectionParser_feed(section_parser, TRUE,
                             Some(Slice(SectionPayload(arg), 0, arg.split))).self
    /\ pc' = "feed2"
    /\ UNCHANGED <<arg, ret, bytes_parser>>
    /\ UNCHANGED readerVars /\ UNCHANGED parseVars

\* feed(False, second part): the payload from the split point.
FeedSecond ==
    /\ pc = "feed2"
    /\ section_parser' = SectionParser_feed(section_parser, FALSE,
                             Some(SliceFrom(SectionPayload(arg), arg.split))).self
    /\ pc' = "get"
    /\ UNCHANGED <<arg, ret, bytes_parser>>
    /\ UNCHANGED readerVars /\ UNCHANGED parseVars

\* get_section(), twice.
GetSection ==
    /\ pc = "get"
    /\ LET g == get_section(section_parser)
       IN  /\ ret' = Append(ret, g.section)
           /\ section_parser' = g.self
    /\ pc' = IF Len(ret) = 1 THEN "done" ELSE "get"
    /\ UNCHANGED <<arg, bytes_parser>>
    /\ UNCHANGED readerVars /\ UNCHANGED parseVars

NextSection == FeedWhole \/ FeedFirst \/ FeedSecond \/ GetSection

SpecSection == InitSection /\ [][NextSection]_vars

\* C6: a fresh parser fed one payload (start indicator, pointer field 0) that
\* holds exactly one complete section gives that section at the first
\* get_section, nothing at the second, and has lost the section start again.
C6_OneCompleteSection ==
    (pc = "done" /\ arg.split = 0 /\ arg.pad = 0) =>
        /\ ret = << Some(Section(arg.table_id, arg.high >= 8,
                                 Len(arg.body), arg.body)), None >>
        /\ section_parser = [buffer |-> None, parsed_sections |-> <<>>]

\* A whole payload with table id 0xFF and a body has been fed and read out.
C6_Witness ==
    /\ pc = "done" /\ arg.split = 0 /\ arg.pad = 0
    /\ arg.table_id = 255 /\ Len(arg.body) = 260
    /\ ret[1] /= None /\ ret[1][1].section_length = 260

\* C7: the section fed in two payloads, split anywhere after the pointer
\* field, gives the same sections and leaves the same parser state as the
\* payload fed whole.
C7_SplitEqualsWhole ==
    (pc = "done" /\ arg.split > 0) =>
        LET whole == SectionParser_feed(SectionParser, TRUE,
                                        Some(SectionPayload(arg))).self
            g1 == get_section(whole)
            g2 == get_section(g1.self)
        IN  /\ ret = <<g1.section, g2.section>>
            /\ section_parser = g2.self
            /\ ret[1] /= None

\* A section split inside its body has been fed in two payloads and read out.
C7_Witness ==
    /\ pc = "done"
    /\ arg.split > 4 /\ arg.split < 4 + Len(arg.body)
    /\ ret[1] /= None /\ ret[1][1].payload = arg.body

(***************************************************************************)
(* NIDSIDExtractor.feed_section alone, on well-formed service-list tables. *)
(***************************************************************************)
MaxServices == 3

ServiceIds == {1, 258, 1025}
ServiceKinds == {"tv", "data", "raw", "rawtv", "none"}

\* The descriptor loop of an entry of each kind.
KindLoop(kind) ==
    CASE kind = "tv" -> ServiceDescriptorBytes(1)
      [] kind = "data" -> ServiceDescriptorBytes(192)
      [] kind = "raw" -> RawDescriptorBytes(193, <<1>>)
      [] kind = "rawtv" -> RawDescriptorBytes(193, <<72, 1>>) \o <<72, 6, 1, 1, 65, 2, 66, 67>>
      [] OTHER -> <<>>

\* The kinds whose loop holds a tag-0x48 descriptor with service type 1.
Qualifies(kind) == kind \in {"tv", "rawtv"}

RECURSIVE EntriesBytes(_)
EntriesBytes(entries) ==
    IF entries = <<>> THEN <<>>
    ELSE ServiceBytes(entries[1].service_id, KindLoop(entries[1].kind))
             \o EntriesBytes(Tail(entries))

TableSection(a) ==
    LET body == SDTBytes(16625, a.original_network_id, EntriesBytes(a.entries))
    IN  Section(a.table_id, TRUE, Len(body), body)

InitSdt ==
    /\ \E ids \in {<<66, 4>>, <<66, 32736>>, <<70, 4>>} :
         \E entries \in UNION { [1..n -> [service_id : ServiceIds, kind : ServiceKinds]] :
                                  n \in 0..MaxServices } :
            arg = [table_id |-> ids[1], original_network_id |-> ids[2],
                   entries |-> entries]
    /\ objects = NewProcessors(<<"nidsid_extractor">>)
    /\ ret = <<>>
    /\ pc = "call"
    /\ cur = None /\ undone = <<>> /\ i = 0 /\ packet_processors = <<>>
    /\ exc = "none" /\ nfeeds = <<>>
    /\ ReaderIdle
    /\ section_parser = SectionParser /\ bytes_parser = BytesParser(<<>>)

CallFeedSection ==
    /\ pc = "call"
    /\ LET r == feed_section(objects["nidsid_extractor"], TableSection(arg))
       IN  /\ objects' = [objects EXCEPT !["nidsid_extractor"] = r.self]
           /\ ret' = r.err
    /\ pc' = "returned"
    /\ UNCHANGED <<arg, section_parser, bytes_parser>>
    /\ UNCHANGED <<cur, undone, i, packet_processors, exc, nfeeds>>
    /\ UNCHANGED readerVars

NextSdt == CallFeedSection

SpecSdt == InitSdt /\ [][NextSdt]_vars

QualifyingIds(a) ==
    { a.entries[k].service_id : k \in { j \in 1..Len(a.entries) :
                                          Qualifies(a.entries[j].kind) } }

Least(S) == CHOOSE m \in S : \A n \in S : m <= n

\* C8: fed a well-formed table with table id 0x42, the extractor records the
\* originating network id and the least service id among the entries with a
\* tag-0x48 descriptor of service type 1, whatever the order of the entries;
\* without such an entry, or with another table id, it stays not done with
\* both fields unset.
C8_MinQualifyingService ==
    pc = "returned" =>
        LET self == objects["nidsid_extractor"]
        IN  /\ ret = "none"
            /\ IF arg.table_id = 66 /\ QualifyingIds(arg) /= {}
               THEN /\ self.network_id = Some(arg.original_network_id)
                    /\ self.service_id = Some(Least(QualifyingIds(arg)))
                    /\ done(self)
               ELSE /\ self.network_id = None /\ self.service_id = None
                    /\ ~done(self)

\* A table whose first entry qualifies, whose least service id belongs to an
\* entry that does not, and whose least qualifying id comes last.
C8_Witness ==
    /\ pc = "returned"
    /\ arg.table_id = 66
    /\ arg.entries = << [service_id |-> 1025, kind |-> "tv"],
                        [service_id |-> 1, kind |-> "data"],
                        [service_id |-> 258, kind |-> "rawtv"] >>
    /\ objects["nidsid_extractor"].service_id = Some(258)

(***************************************************************************)
(* BytesParser alone: any calls of get_int, get_bytes and skip on a fresh  *)
(* parser.  arg.bits collects the bits of the values get_int returned,     *)
(* each value as its width in bits; arg.clean tells that every call so far *)
(* was a get_int that returned (the bits are dropped once it is false);    *)
(* arg.fits that every value fit its width.                                *)
(* ret is the last call: the operation, its argument, the exception if     *)
(* any, the value returned, and the parser before the call.                *)
(***************************************************************************)
MaxBufLen == 3
MaxWidth == 16
MaxSkip == 3

ByteVals == {0, 165, 255}

\* The n bits of v, most significant first.
ToBits(v, n) == [k \in 1..n |-> (v \div (2 ^ (n - k))) % 2]

RECURSIVE BufferBits(_)
\* The bits of a buffer read as one big-endian integer of 8 * len bits.
BufferBits(buffer) ==
    IF buffer = <<>> THEN <<>>
    ELSE ToBits(buffer[1], 8) \o BufferBits(Tail(buffer))

InitBits ==
    /\ \E buffer \in UNION { [1..n -> ByteVals] : n \in 0..MaxBufLen } :
          /\ bytes_parser = BytesParser(buffer)
          /\ ret = [op |-> "new", n |-> 0, err |-> "none", value |-> <<>>,
                    before |-> BytesParser(buffer)]
    /\ arg = [bits |-> <<>>, clean |-> TRUE, fits |-> TRUE]
    /\ pc = "calls"
    /\ section_parser = SectionParser
    /\ ReaderIdle /\ ParseIdle

CallGetInt(n) ==
    /\ pc = "calls"
    /\ LET r == get_int(bytes_parser, n)
       IN  /\ bytes_parser' = r.parser
           /\ ret' = [op |-> "get_int", n |-> n, err |-> r.err,
                      value |-> <<r.value>>, before |-> bytes_parser]
           /\ arg' = IF r.err = "none"
                     THEN [arg EXCEPT !.bits = IF arg.clean
                                               THEN @ \o ToBits(r.value % (2 ^ n), n)
                                               ELSE @,
                                      !.fits = @ /\ r.value < 2 ^ n]
                     ELSE [bits |-> <<>>, clean |-> FALSE, fits |-> TRUE]
    /\ UNCHANGED <<pc, section_parser>>
    /\ UNCHANGED readerVars /\ UNCHANGED parseVars

CallGetBytes(n) ==
    /\ pc = "calls"
    /\ LET r == get_bytes(bytes_parser, n)
       IN  /\ bytes_parser' = r.parser
           /\ ret' = [op |-> "get_bytes", n |-> n, err |-> r.err,
                      value |-> r.value, before |-> bytes_parser]
    /\ arg' = [bits |-> <<>>, clean |-> FALSE, fits |-> TRUE]
    /\ UNCHANGED <<pc, section_parser>>
    /\ UNCHANGED readerVars /\ UNCHANGED parseVars

\* skip never fails; the cursor may pass the end of the buffer (by at most
\* MaxSkip bits here).
CallSkip(n) ==
    /\ pc = "calls"
    /\ 8 * bytes_parser.bytepos + bytes_parser.bitpos
           <= 8 * Len(bytes_parser.buffer)
    /\ bytes_parser' = skip(bytes_parser, n)
    /\ ret' = [op |-> "skip", n |-> n, err |-> "none", value |-> <<>>,
               before |-> bytes_parser]
    /\ arg' = [bits |-> <<>>, clean |-> FALSE, fits |-> TRUE]
    /\ UNCHANGED <<pc, section_parser>>
    /\ UNCHANGED readerVars /\ UNCHANGED parseVars

NextBits ==
    \/ \E n \in 1..MaxWidth : CallGetInt(n)
    \/ \E n \in 0..(MaxBufLen + 1) : CallGetBytes(n)
    \/ \E n \in 1..MaxSkip : CallSkip(n)

SpecBits == InitBits /\ [][NextBits]_vars

\* C9: successive get_int calls on a fresh parser whose widths add up to the
\* bit length of the buffer return values whose concatenation, each value
\* as its width in bits, is the buffer read as one big-endian integer, and
\* the cursor ends at the end of the buffer.
C9_GetIntReadsBuffer ==
    (arg.clean /\ Len(arg.bits) = 8 * Len(bytes_parser.buffer)) =>
        /\ arg.fits
        /\ arg.bits = BufferBits(bytes_parser.buffer)
        /\ bytes_parser.bytepos = Len(bytes_parser.buffer)
        /\ bytes_parser.bitpos = 0

\* A three-byte buffer has been read to its end by get_int calls, the last
\* of which started inside a byte and crossed a byte boundary.
C9_Witness ==
    /\ arg.clean
    /\ bytes_parser.buffer = <<165, 0, 255>>
    /\ Len(arg.bits) = 24
    /\ ret.op = "get_int" /\ ret.before.bitpos = 3 /\ ret.n = 13

\* C10: a get_bytes (on an aligned cursor) or get_int that would read past
\* the end of the buffer raises OverflowError and leaves the cursor unchanged.
C10_PastEndOverflowError ==
    LET before == ret.before
        past == \/ /\ ret.op = "get_int"
                   /\ 8 * before.bytepos + before.bitpos + ret.n > 8 * Len(before.buffer)
                \/ /\ ret.op = "get_bytes"
                   /\ before.bitpos = 0
                   /\ before.bytepos + ret.n > Len(before.buffer)
    IN  past => (ret.err = "OverflowError" /\ bytes_parser = before)

(***************************************************************************)
(* SectionParser alone: any calls of feed and get_section on a fresh        *)
(* parser.  arg.stream collects the bytes the payloads contribute to the   *)
(* buffer, arg.emitted every section the calls have put in the queue, in   *)
(* the order they were put there.  ret is the last call: the operation,    *)
(* its arguments, the exception if any, and the parser before the call.    *)
(***************************************************************************)
MaxFeeds == 3

\* A section of two bytes, and a section without a body.
SecA == <<66, 240, 2, 10, 11>>
SecB == <<112, 0, 0>>

\* The payloads fed: None is the payload of a packet that carries none.
ReassemblerPayloads ==
    { Some(<<0>> \o SecA),
      Some(<<0>> \o SecA \o SecB),
      Some(<<0>> \o SecA \o <<255, 255>>),
      Some(<<2, 10, 11>> \o SecB),
      Some(<<0, 66, 240, 2>>),
      Some(<<10, 11>>),
      Some(<<0, 255, 0, 1, 7>>),
      Some(<<0, 66, 255, 255, 1>>),
      None }

\* The bytes a payload adds to the buffer, as feed takes them.
Contribution(before, payload_unit_start_indicator, payload) ==
    IF payload = None THEN <<>>
    ELSE IF before.buffer = None
    THEN IF payload_unit_start_indicator
         THEN SliceFrom(payload[1], 1 + payload[1][1])
         ELSE <<>>
    ELSE IF payload_unit_start_indicator THEN SliceFrom(payload[1], 1)
    ELSE payload[1]

\* The sections a call has put in the queue, oldest first: insert(0, s)
\* puts each in front of the ones before it.
NewSections(before, after) ==
    [k \in 1..(Len(after.parsed_sections) - Len(before.parsed_sections)) |->
        after.parsed_sections[Len(after.parsed_sections)
                              - Len(before.parsed_sections) - k + 1]]

InitReassembler ==
    /\ section_parser = SectionParser
    /\ arg = [calls |-> 0, stream |-> <<>>, emitted |-> <<>>]
    /\ ret = [op |-> "new", payload_unit_start_indicator |-> FALSE,
              payload |-> None, err |-> "none", before |-> SectionParser]
    /\ pc = "calls"
    /\ bytes_parser = BytesParser(<<>>)
    /\ ReaderIdle /\ ParseIdle

\* section_parser.feed(payload_unit_start_indicator, payload)
CallFeed(payload_unit_start_indicator, payload) ==
    /\ pc = "calls" /\ arg.calls < MaxFeeds
    /\ LET r == SectionParser_feed(section_parser, payload_unit_start_indicator,
                                   payload)
       IN  /\ section_parser' = r.self
           /\ ret' = [op |-> "feed",
                      payload_unit_start_indicator |-> payload_unit_start_indicator,
                      payload |-> payload, err |-> r.err,
                      before |-> section_parser]
           /\ arg' = [calls |-> arg.calls + 1,
                      stream |-> arg.stream \o
                          (IF r.err = "none"
                           THEN Contribution(section_parser,
                                             payload_unit_start_indicator, payload)
                           ELSE <<>>),
                      emitted |-> arg.emitted \o NewSections(section_parser, r.self)]
    /\ UNCHANGED <<pc, bytes_parser>>
    /\ UNCHANGED readerVars /\ UNCHANGED parseVars

\* section_parser.get_section()
CallGetSection ==
    /\ pc = "calls" /\ arg.calls < MaxFeeds
    /\ section_parser' = get_section(section_parser).self
    /\ ret' = [op |-> "get_section", payload_unit_start_indicator |-> FALSE,
               payload |-> None, err |-> "none", before |-> section_parser]
    /\ arg' = [arg EXCEPT !.calls = @ + 1]
    /\ UNCHANGED <<pc, bytes_parser>>
    /\ UNCHANGED readerVars /\ UNCHANGED parseVars

NextReassembler ==
    \/ \E b \in BOOLEAN, payload \in ReassemblerPayloads : CallFeed(b, payload)
    \/ CallGetSection

SpecReassembler == InitReassembler /\ [][NextReassembler]_vars

\* The section e stands in the byte string stream: its table id, its two
\* length bytes and, right after them, its payload.
StandsIn(e, stream) ==
    \E k \in 0..(Len(stream) - 3 - e.section_length) :
        /\ stream[k + 1] = e.table_id
        /\ from_bytes(Slice(stream, k + 1, k + 3)) % 4096 = e.section_length
        /\ (from_bytes(Slice(stream, k + 1, k + 3)) \div 32768 /= 0)
               = e.section_syntax_indicator
        /\ Slice(stream, k + 3, k + 3 + e.section_length) = e.payload

\* C11: every section the parser has put in its queue has a payload of
\* exactly section_length bytes, 0 <= section_length <= 4095, and these are
\* the bytes that follow its three header bytes in the accumulated stream;
\* so no section is emitted before its declared length is buffered.
C11_SectionsComplete ==
    pc = "calls" =>
        /\ \A k \in 1..Len(arg.emitted) :
              /\ arg.emitted[k].section_length \in 0..4095
              /\ Len(arg.emitted[k].payload) = arg.emitted[k].section_length
              /\ StandsIn(arg.emitted[k], arg.stream)
        /\ \A k \in 1..Len(section_parser.parsed_sections) :
              \E j \in 1..Len(arg.emitted) :
                  arg.emitted[j] = section_parser.parsed_sections[k]

\* A section has been completed by a second payload while a section whose
\* declared length never arrives was not emitted.
C11_Witness ==
    /\ pc = "calls" /\ ret.op = "feed" /\ ~ret.payload_unit_start_indicator
    /\ ret.payload = Some(<<10, 11>>)
    /\ ret.before.buffer = Some(<<66, 240, 2>>)
    /\ arg.emitted = <<Section(66, TRUE, 2, <<10, 11>>)>>
    /\ section_parser.buffer = None

\* C12: the parser is never left synchronized (buffer not None) with an
\* empty buffer or with a buffer whose next byte is the stuffing value 0xFF.
C12_SynchronizedHasSectionStart ==
    section_parser.buffer /= None =>
        /\ section_parser.buffer[1] /= <<>>
        /\ section_parser.buffer[1][1] /= 255

\* The last call was feed(True, payload) with a payload, on a synchronized
\* parser whose buffer held the first bytes of a section not yet complete.
StartOnPending ==
    /\ pc = "calls" /\ ret.op = "feed" /\ ret.payload_unit_start_indicator
    /\ ret.payload /= None
    /\ ret.before.buffer /= None /\ ret.before.buffer[1] /= <<>>

\* C13 as claimed: a payload with the start indicator fed to a synchronized
\* parser that holds an incomplete section discards the pending bytes and
\* restarts from the new payload.
C13_StartDiscardsPending ==
    StartOnPending =>
        LET restarted == SectionParser_feed(
                             [ret.before EXCEPT !.buffer = None], TRUE, ret.payload)
        IN  section_parser = restarted.self

\* C13 as amended: such a payload keeps the pending bytes.  Only its
\* pointer-field byte is dropped and the rest is appended to them: the
\* first section the call completes, if any, starts with the pending bytes,
\* and otherwise the buffer is the pending bytes followed by the rest.
C13_StartKeepsPending ==
    StartOnPending =>
        LET data == ret.before.buffer[1] \o SliceFrom(ret.payload[1], 1)
            new == NewSections(ret.before, section_parser)
        IN  /\ ret.err = "none"
            /\ IF new = <<>>
               THEN section_parser.buffer = Some(data)
               ELSE /\ new[1].table_id = data[1]
                    /\ new[1].section_length = from_bytes(Slice(data, 1, 3)) % 4096
                    /\ new[1].payload = Slice(data, 3, 3 + new[1].section_length)

\* A pending header of three bytes has been completed by the bytes that
\* follow the pointer field of a payload with the start indicator.
C13_Witness ==
    /\ StartOnPending
    /\ ret.before.buffer = Some(<<66, 240, 2>>)
    /\ ret.payload = Some(<<2, 10, 11>> \o SecB)
    /\ NewSections(ret.before, section_parser)
           = <<Section(66, TRUE, 2, <<10, 11>>), Section(112, FALSE, 0, <<>>)>>

\* C14: feed(False, payload) on an unsynchronized parser changes nothing
\* for any payload, and an unsynchronized parser becomes synchronized only
\* by a feed with the start indicator.
C14_NoStartNoSync ==
    /\ (pc = "calls" /\ ret.op = "feed" /\ ~ret.payload_unit_start_indicator
            /\ ret.before.buffer = None)
           => (ret.err = "none" /\ section_parser = ret.before)
    /\ (pc = "calls" /\ ret.before.buffer = None /\ section_parser.buffer /= None)
           => (ret.op = "feed" /\ ret.payload_unit_start_indicator)

\* A payload holding a complete section has been fed without the start
\* indicator to an unsynchronized parser whose queue holds a section.
C14_Witness ==
    /\ pc = "calls" /\ ret.op = "feed" /\ ~ret.payload_unit_start_indicator
    /\ ret.before.buffer = None /\ ret.before.parsed_sections /= <<>>
    /\ ret.payload = Some(<<0>> \o SecA)

(***************************************************************************)
(* read_ts_packet alone on corrupt sources: garbage bytes, then frames that *)
(* parse_packet accepts or rejects, then a cut frame.  The caller takes     *)
(* every packet; the loop runs on as long as it can take a step.            *)
(***************************************************************************)
MaxGarbage == 2

GarbageBytes == {0, 71}

\* A frame parse_packet accepts, a frame with the error indicator, and a
\* window of sync bytes followed by zeros.
ScanFrames ==
    { PayloadFrame(TRUE, 17, <<0>> \o SdtTv),
      ErrorFrame(17),
      <<71, 71, 71, 71>> \o Repeat(0, 184) }

\* Garbage, up to two frames and a cut frame; a window without any sync
\* byte between two frames; sync bytes only.
ScanSources ==
    { g \o Flatten(frames) \o tail :
        g \in UNION { [1..n -> GarbageBytes] : n \in 0..MaxGarbage },
        frames \in UNION { [1..n -> ScanFrames] : n \in 0..2 },
        tail \in { <<>>, <<71, 64>> } }
    \cup { PayloadFrame(FALSE, 8191, <<>>) \o Repeat(0, 188)
               \o PayloadFrame(FALSE, 8191, <<>>),
           Repeat(71, 380) }

InitScan ==
    /\ \E data \in ScanSources : file = [data |-> data, pos |-> 0]
    /\ packet = <<>> /\ yielded = <<>>
    /\ pc = "next"
    /\ ParseIdle /\ AloneIdle

SpecScan == InitScan /\ [][NextRead]_vars /\ WF_vars(NextRead)

\* The bytes of the source not yet consumed: unread, or in the window.
Unconsumed == Len(file.data) - file.pos + Len(packet)

\* One step of the scan: it yields a packet made of a whole window, or it
\* drops at least one byte of the window, or it ends on a short read; the
\* window of a yielded packet is consumed when the caller asks for more.
ScanProgress ==
    /\ pc = "next" =>
          \/ /\ pc' = "resume" /\ Len(packet') = TS_PACKET_SIZE
             /\ Len(yielded') = Len(yielded) + 1
             /\ Unconsumed' = Unconsumed
          \/ /\ pc' = "next" /\ yielded' = yielded
             /\ Unconsumed' < Unconsumed
          \/ /\ pc' = "exhausted" /\ yielded' = yielded
             /\ file'.pos = Len(file.data) /\ Len(packet') < TS_PACKET_SIZE
    /\ pc = "resume" =>
          /\ pc' = "next" /\ Unconsumed' = Unconsumed - TS_PACKET_SIZE

\* C16: every iteration of read_ts_packet yields a packet and consumes its
\* window, or drops at least one byte, or ends on a short read; so the scan
\* of every finite source ends, and it ends by returning.
C16_ScanTerminates ==
    /\ [][ScanProgress]_vars
    /\ <>(pc = "exhausted")

\* The scan of a source without any valid frame has ended: nothing was
\* yielded and every byte was read.
C16_Witness ==
    /\ pc = "exhausted" /\ yielded = <<>>
    /\ file.data = <<71, 0>> \o ErrorFrame(17) \o ErrorFrame(17) \o <<71, 64>>
    /\ file.pos = Len(file.data)

(***************************************************************************)
(* parse_adaptation_field alone.  arg describes the buffer: the flag byte,  *)
(* the six bytes of a clock reference, the bytes after it and the length    *)
(* byte, which is right or one too large.                                   *)
(***************************************************************************)
FlagBytes == {0, 4, 8, 16, 20, 24, 28, 255}

\* Clock references: every part (base, reserved bits, extension) empty,
\* full and mixed.
ClockFields ==
    { <<b1, 0, 3, 0, b5, b6>> :
        b1 \in {0, 255}, b5 \in {0, 1, 126, 128, 255}, b6 \in {0, 1, 64, 255} }

AdaptationBuffer(a) ==
    <<Len(a.clock) + Len(a.rest) + 1 + a.excess, a.flags>> \o a.clock \o a.rest

InitAdaptation ==
    /\ \E flags \in FlagBytes, clock \in ClockFields \cup {<<>>, <<1, 2>>},
          rest \in {<<>>, <<129>>, <<0, 0, 0, 0, 0, 1, 255>>}, excess \in {0, 1} :
          arg = [flags |-> flags, clock |-> clock, rest |-> rest, excess |-> excess]
    /\ ret = <<>>
    /\ pc = "call"
    /\ section_parser = SectionParser /\ bytes_parser = BytesParser(<<>>)
    /\ ReaderIdle /\ ParseIdle

\* parse_adaptation_field(buffer)
CallParseAdaptationField ==
    /\ pc = "call"
    /\ ret' = parse_adaptation_field(AdaptationBuffer(arg))
    /\ pc' = "returned"
    /\ UNCHANGED <<arg, section_parser, bytes_parser>>
    /\ UNCHANGED readerVars /\ UNCHANGED parseVars

NextAdaptation == CallParseAdaptationField

SpecAdaptation == InitAdaptation /\ [][NextAdaptation]_vars

\* base * 300 + extension of a six-byte clock reference: base is its
\* leading 33 bits, extension its trailing 9 bits.
ClockValue(clock) ==
    LET n2 == clock[1] * 256 + clock[2]
        n1 == clock[3] * 256 + clock[4]
        n0 == clock[5] * 256 + clock[6]
        low == (n1 * 2 + n0 \div 32768) * 300 + (n0 % 512)
    IN  [hi |-> n2 * 600 + low \div 65536, lo |-> low % 65536]

\* C17: for a six-byte clock reference, parse_adaptation_field returns
\* base * 300 + extension, base the leading 33 bits and extension the
\* trailing 9 bits of the field, whatever the 6 reserved bits between them.
C17_ClockReference ==
    (pc = "returned" /\ ret.err = "none" /\ ret.field /= None
        /\ ret.field[1].pcr_flag /\ Len(arg.clock) = 6) =>
            ret.field[1].pcr = Some(ClockValue(arg.clock))

(***************************************************************************)
(* TOTExtractor.feed_section alone, day after day: a fresh extractor is fed *)
(* the time table of the day arg.mjd with the time bytes arg.time; ret is   *)
(* the call for the day before (its day, exception and extractor), and      *)
(* arg.prev the time that the call before that one set.                     *)
(***************************************************************************)
\* 1 March 1900, from which on the conversion of the table is defined.
MjdFirst == 15079
\* The day-count field has two bytes.
MJD_MAX == 65535

\* hour, minute and second in BCD: 00:00:00, 23:59:59, 18:52:07.
TimeBytes == { <<0, 0, 0>>, <<35, 89, 89>>, <<24, 82, 7>> }

InitTot ==
    /\ \E t \in TimeBytes : arg = [mjd |-> MjdFirst, time |-> t, prev |-> None]
    /\ ret = [mjd |-> 0, err |-> "none", self |-> TOTExtractor]
    /\ pc = "call"
    /\ section_parser = SectionParser /\ bytes_parser = BytesParser(<<>>)
    /\ ReaderIdle /\ ParseIdle

\* TOTExtractor().feed_section(section) for the day arg.mjd.
CallTotFeedSection ==
    /\ pc = "call" /\ arg.mjd <= MJD_MAX
    /\ LET r == feed_section(TOTExtractor,
                    Section(115, FALSE, 11,
                            TOTBytes(arg.mjd, arg.time[1], arg.time[2], arg.time[3])))
       IN  ret' = [mjd |-> arg.mjd, err |-> r.err, self |-> r.self]
    /\ arg' = [arg EXCEPT !.mjd = @ + 1, !.prev = ret.self.time]
    /\ UNCHANGED <<pc, section_parser, bytes_parser>>
    /\ UNCHANGED readerVars /\ UNCHANGED parseVars

NextTot == CallTotFeedSection

SpecTot == InitTot /\ [][NextTot]_vars

LeapYear(y) == y % 4 = 0 /\ (y % 100 /= 0 \/ y % 400 = 0)

\* The Gregorian date of a modified Julian date, by counting the days from
\* 1 March of year 0 in cycles of 400 years (146097 days), centuries, four
\* years and years, and the months from March in groups of 153 days.
Gregorian(mjd) ==
    LET z == mjd + 678881
        era == z \div 146097
        doe == z % 146097
        yoe == (doe - (doe \div 1460) + (doe \div 36524) - (doe \div 146096)) \div 365
        doy == doe - (365 * yoe + (yoe \div 4) - (yoe \div 100))
        mp == (5 * doy + 2) \div 153
        m == IF mp < 10 THEN mp + 3 ELSE mp - 9
    IN  [year |-> yoe + era * 400 + (IF m <= 2 THEN 1 ELSE 0),
         month |-> m,
         day |-> doy - ((153 * mp + 2) \div 5) + 1]

\* The calendar day after the day of t.
DayAfter(t) ==
    LET last == IF t.month = 2 THEN (IF LeapYear(t.year) THEN 29 ELSE 28)
                ELSE IF t.month \in {4, 6, 9, 11} THEN 30 ELSE 31
    IN  IF t.day < last
        THEN [year |-> t.year, month |-> t.month, day |-> t.day + 1]
        ELSE IF t.month < 12
        THEN [year |-> t.year, month |-> t.month + 1, day |-> 1]
        ELSE [year |-> t.year + 1, month |-> 1, day |-> 1]

Day(t) == [year |-> t.year, month |-> t.month, day |-> t.day]

\* C18: for every day-count from MjdFirst to the largest the field holds and
\* valid BCD time bytes, feed_section sets time to the Gregorian date of the
\* day-count, with hour, minute and second each high nibble * 10 + low
\* nibble, and the extractor is done; the date of a day-count is the calendar
\* day after the date of the day-count before it.
C18_DayCountToDate ==
    (pc = "call" /\ ret.mjd >= MjdFirst) =>
        /\ ret.err = "none"
        /\ done(ret.self)
        /\ Day(ret.self.time[1]) = Gregorian(ret.mjd)
        /\ ret.self.time[1].hour = (arg.time[1] \div 16) * 10 + (arg.time[1] % 16)
        /\ ret.self.time[1].minute = (arg.time[2] \div 16) * 10 + (arg.time[2] % 16)
        /\ ret.self.time[1].second = (arg.time[3] \div 16) * 10 + (arg.time[3] % 16)
        /\ (arg.prev /= None => Day(ret.self.time[1]) = DayAfter(Day(arg.prev[1])))

\* The table of 1 January 1901 at 23:59:59 has been decoded, the day after
\* 31 December 1900.
C18_Witness ==
    /\ pc = "call" /\ ret.mjd = 15385 /\ arg.time = <<35, 89, 89>>
    /\ ret.self.time = Some([year |-> 1901, month |-> 1, day |-> 1,
                             hour |-> 23, minute |-> 59, second |-> 59])
    /\ arg.prev /= None /\ arg.prev[1].year = 1900 /\ arg.prev[1].day = 31

(***************************************************************************)
(* SectionPacketProcessor.feed alone: a NIDSIDExtractor is fed packets that *)
(* parse_packet has accepted, in any order.  No section of these packets    *)
(* fails to decode.  ret is the last call: the packet, the exception if    *)
(* any, and the processor before the call; arg counts the calls.           *)
(***************************************************************************)
MaxPackets == 3

\* Frames of the service table's PID: one section, two sections packed in
\* one payload, a section in two payloads, a pointer field beyond the
\* payload, no payload at all; and a frame of another PID.
ProcessorFrames ==
    { PayloadFrame(TRUE, 17, <<0>> \o SdtOther),
      PayloadFrame(TRUE, 17, <<0>> \o SdtOther \o SdtNoTv),
      ShortPayloadFrame(TRUE, 17, <<0>> \o SubSeq(SdtOther, 1, 5)),
      ShortPayloadFrame(FALSE, 17, SubSeq(SdtOther, 6, Len(SdtOther))),
      ShortPayloadFrame(TRUE, 17, <<200, 1, 2>>),
      AdaptationOnlyFrame(TRUE, 17),
      AdaptationOnlyFrame(FALSE, 17),
      PayloadFrame(TRUE, 20, <<0>> \o Tot) }

InitProcessor ==
    /\ objects = NewProcessors(<<"nidsid_extractor">>)
    /\ arg = [calls |-> 0]
    /\ ret = [packet |-> None, err |-> "none", before |-> NIDSIDExtractor]
    /\ pc = "calls"
    /\ cur = None /\ undone = <<>> /\ i = 0 /\ packet_processors = <<>>
    /\ exc = "none" /\ nfeeds = <<>>
    /\ ReaderIdle
    /\ section_parser = SectionParser /\ bytes_parser = BytesParser(<<>>)

\* nidsid_extractor.feed(parse_packet(frame))
CallProcessorFeed(frame) ==
    /\ pc = "calls" /\ arg.calls < MaxPackets
    /\ parse_packet(frame).err = "none"
    /\ LET r == SectionPacketProcessor_feed(objects["nidsid_extractor"],
                                            parse_packet(frame).packet)
       IN  /\ objects' = [objects EXCEPT !["nidsid_extractor"] = r.self]
           /\ ret' = [packet |-> Some(parse_packet(frame).packet), err |-> r.err,
                      before |-> objects["nidsid_extractor"]]
    /\ arg' = [calls |-> arg.calls + 1]
    /\ UNCHANGED <<pc, section_parser, bytes_parser>>
    /\ UNCHANGED <<cur, undone, i, packet_processors, exc, nfeeds>>
    /\ UNCHANGED readerVars

NextProcessor == \E frame \in ProcessorFrames : CallProcessorFeed(frame)

SpecProcessor == InitProcessor /\ [][NextProcessor]_vars

\* C19: when feed returns, every section the section parser has completed
\* has been given to feed_section: its queue is empty, also after a payload
\* that completes two sections.
C19_QueueEmptyAfterFeed ==
    (pc = "calls" /\ ret.packet /= None /\ ret.err = "none") =>
        objects["nidsid_extractor"].section_parser.parsed_sections = <<>>

\* C20: feed of an accepted packet of the subscribed PID does not fail,
\* whether the section parser is synchronized or not, and a packet without
\* payload leaves the buffer of the section parser as it was.
C20_FeedNeverFails ==
    (pc = "calls" /\ ret.packet /= None /\ ret.packet[1].pid = 17) =>
        /\ ret.err = "none"
        /\ ret.packet[1].payload = None =>
               objects["nidsid_extractor"].section_parser.buffer
                   = ret.before.section_parser.buffer
====
